---- MODULE Spec2Model ----
(***************************************************************************)
(* GeneratePreParams (ecdsa/keygen/prepare.go): the preparation            *)
(* orchestrator of tss-lib.  One invocation spawns two goroutines (the     *)
(* Paillier key generation and the safe-prime search), receives their      *)
(* results over two unbuffered channels, derives NTildei, h1i, h2i and     *)
(* returns LocalPreParams.  The three callees live outside prepare.go      *)
(* (paillier.GenerateKeyPair, common.GetRandomGermainPrimesConcurrent,     *)
(* crypto.GenerateNTildei); they are modelled from their contracts in      *)
(* spec.md sections 4.1, 4.2 and 4.3.                                      *)
(***************************************************************************)
EXTENDS Integers, Sequences, FiniteSets, TLC

\* ------------------------------------------------------------------ bounds
\* Largest concurrency value a caller passes.
MaxConcurrency == 2
\* Candidate attempts the safe-prime pool makes before it gives up.
MaxAttempts == 3
\* Resampling attempts of h1 before the derivation reports an error.
MaxResample == 1

\* -------------------------------------------------- protocol parameters
\* Bit length of the Sophie Germain component q (scaled down from 1024).
SafePrimeBitLen == 5
\* Bit length of the Paillier modulus (scaled down from 2048).
PaillierModulusLen == 8
\* runtime.NumCPU() of the host.
NumCPU == 2

\* A nil error, and the errors and panic values of the program.
NoErr == "nil"
ErrPaillier == "paillier: key generation failed"
ErrNTilde == "GenerateNTildei: no invertible generator"
NoPanic == "none"
PanicArgs == "GeneratePreParams: expected 0 or 1 item in optionalConcurrency"
PanicIndex == "runtime error: index out of range"

InvIds == {1, 2}
Workers == 1 .. (IF MaxConcurrency > NumCPU THEN MaxConcurrency ELSE NumCPU)

\* The argument lists a caller passes as optionalConcurrency ...int.
ArgLists ==
    {<< >>} \cup {<<c>> : c \in (-1) .. MaxConcurrency} \cup {<<1, 2>>}

\* ------------------------------------------------------- number theory
IsPrime(n) == n > 1 /\ \A d \in 2 .. (n - 1) : d * d > n \/ n % d # 0

RECURSIVE Pow2(_)
Pow2(n) == IF n = 0 THEN 1 ELSE 2 * Pow2(n - 1)

RECURSIVE Gcd(_, _)
Gcd(a, b) == IF b = 0 THEN a ELSE Gcd(b, a % b)

\* Fast modular exponentiation, square and multiply.
RECURSIVE ModExp(_, _, _)
ModExp(b, e, m) ==
    IF e = 0 THEN 1 % m
    ELSE LET half == ModExp(b, e \div 2, m)
             sq == (half * half) % m
         IN IF e % 2 = 1 THEN (sq * (b % m)) % m ELSE sq

\* common.GermainPrime: the pair (q, p) with p = 2q + 1.
GermainPrime(q) == [q |-> q, p |-> 2 * q + 1]
SafePrime(gp) == gp.p

\* The odd candidates of the requested bit length a worker samples from.
Candidates(bits) == {q \in Pow2(bits - 1) .. (Pow2(bits) - 1) : q % 2 = 1}
\* A candidate is accepted only if q and 2q + 1 both pass the primality test.
IsSafe(q) == IsPrime(q) /\ IsPrime(2 * q + 1)

\* A nil *paillier.PrivateKey.
NilKey == [p |-> 0, q |-> 0, N |-> 0]
\* The keys paillier.GenerateKeyPair can produce for a modulus length: two
\* distinct primes of half the length whose product has the full length.
PaillierKeys(len) ==
    LET half == Pow2(len \div 2 - 1) .. (Pow2(len \div 2) - 1)
    IN {[p |-> xy[1], q |-> xy[2], N |-> xy[1] * xy[2]] :
          xy \in {ab \in half \X half :
                    /\ IsPrime(ab[1]) /\ IsPrime(ab[2]) /\ ab[1] # ab[2]
                    /\ ab[1] * ab[2] >= Pow2(len - 1)}}

\* The values the derivation samples h1 from: two small units and the
\* proper divisors of NTilde, which are not invertible.
H1Samples(N) == {h \in 2 .. (N - 1) : h <= 3 \/ N % h = 0}
\* The values the derivation samples alpha from, within [1, NTilde).
AlphaSamples(N) == {1, 2, N - 1}

\* A nil *LocalPreParams; a nil *big.Int is 0.
NilPreParams ==
    [isNil |-> TRUE, PaillierSK |-> NilKey, NTildei |-> 0, H1i |-> 0, H2i |-> 0]
NoRet == [returned |-> FALSE, preParams |-> NilPreParams, err |-> NoErr]

VARIABLES
    invs,         \* the invocations of GeneratePreParams of this run
    args,         \* optionalConcurrency of each invocation
    pc,           \* position of the orchestrator
    concurrency,  \* var concurrency int
    panicVal,     \* the value the invocation panicked with, or NoPanic
    paiPc,        \* position of the Paillier goroutine
    paiArg,       \* the modulus length GenerateKeyPair was called with
    paiLocal,     \* its locals: PiPaillierSk and the discarded second value
    sgpPc,        \* position of the safe-prime goroutine
    sgpArg,       \* the arguments GetRandomGermainPrimesConcurrent got
    accepted,     \* accepted Sophie Germain primes, in order of acceptance
    attempts,     \* candidates the pool has sampled
    wres,         \* per worker, the found candidate awaiting collection, or 0
    sgpLocal,     \* sgps local to the goroutine
    order,        \* the top-level tasks in the order they completed
    sgps,         \* sgps of the orchestrator
    paiSK,        \* paiSK of the orchestrator
    derive,       \* the locals of crypto.GenerateNTildei and its results
    ret           \* what the invocation returned, or NoRet

vars == <<invs, args, pc, concurrency, panicVal, paiPc, paiArg, paiLocal,
          sgpPc, sgpArg, accepted, attempts, wres, sgpLocal, order, sgps,
          paiSK, derive, ret>>

NoDerive == [NTildei |-> 0, h1i |-> 0, h2i |-> 0, alpha |-> 0,
             resamples |-> 0, err |-> NoErr]

InitWith(active, lists) ==
    /\ invs = active
    /\ args \in [InvIds -> lists \cup {<< >>}]
    /\ \A i \in InvIds : args[i] \in (IF i \in active THEN lists ELSE {<< >>})
    /\ pc = [i \in InvIds |-> IF i \in active THEN "start" ELSE "unused"]
    /\ concurrency = [i \in InvIds |-> 0]
    /\ panicVal = [i \in InvIds |-> NoPanic]
    /\ paiPc = [i \in InvIds |-> "none"]
    /\ paiArg = [i \in InvIds |-> 0]
    /\ paiLocal = [i \in InvIds |-> [sk |-> NilKey, err |-> NoErr]]
    /\ sgpPc = [i \in InvIds |-> "none"]
    /\ sgpArg = [i \in InvIds |-> [bits |-> 0, count |-> 0, concurrency |-> 0]]
    /\ accepted = [i \in InvIds |-> << >>]
    /\ attempts = [i \in InvIds |-> 0]
    /\ wres = [i \in InvIds |-> [w \in Workers |-> 0]]
    /\ sgpLocal = [i \in InvIds |-> << >>]
    /\ order = [i \in InvIds |-> << >>]
    /\ sgps = [i \in InvIds |-> << >>]
    /\ paiSK = [i \in InvIds |-> NilKey]
    /\ derive = [i \in InvIds |-> NoDerive]
    /\ ret = [i \in InvIds |-> NoRet]

\* One invocation, with any argument list.
Init == InitWith({1}, ArgLists)

\* ------------------------------------------------- the orchestrator
\* Mutant: the argument is ignored and the default always used.
ResolveConcurrencyDefault(a) == NumCPU

\* Lines 24-32: the concurrency value of an argument list of 0 or 1 items.
ResolveConcurrency(a) == IF 0 < Len(a) THEN a[1] ELSE NumCPU

\* Lines 23-32: more than one item panics; otherwise concurrency is set.
Resolve(i) ==
    /\ pc[i] = "start"
    /\ IF 1 < Len(args[i])
       THEN /\ pc' = [pc EXCEPT ![i] = "panicked"]
            /\ panicVal' = [panicVal EXCEPT ![i] = PanicArgs]
            /\ UNCHANGED concurrency
       ELSE /\ pc' = [pc EXCEPT ![i] = "spawnPai"]
            /\ concurrency' =
                   [concurrency EXCEPT ![i] = ResolveConcurrency(args[i])]
            /\ UNCHANGED panicVal
    /\ UNCHANGED <<invs, args, paiPc, paiArg, paiLocal, sgpPc, sgpArg,
                   accepted, attempts, wres, sgpLocal, order, sgps, paiSK,
                   derive, ret>>

\* Mutant: after starting the Paillier goroutine the orchestrator goes on to
\* the receive; the safe-prime goroutine is not started.
SpawnPaiOnly(i) ==
    /\ pc[i] = "spawnPai"
    /\ pc' = [pc EXCEPT ![i] = "recvSgp"]
    /\ paiPc' = [paiPc EXCEPT ![i] = "gen"]
    /\ UNCHANGED <<invs, args, concurrency, panicVal, paiArg, paiLocal,
                   sgpPc, sgpArg, accepted, attempts, wres, sgpLocal, order,
                   sgps, paiSK, derive, ret>>

\* Lines 35, 39, 44: make paiCh and start the Paillier goroutine.
SpawnPai(i) ==
    /\ pc[i] = "spawnPai"
    /\ pc' = [pc EXCEPT ![i] = "spawnSgp"]
    /\ paiPc' = [paiPc EXCEPT ![i] = "gen"]
    /\ UNCHANGED <<invs, args, concurrency, panicVal, paiArg, paiLocal,
                   sgpPc, sgpArg, accepted, attempts, wres, sgpLocal, order,
                   sgps, paiSK, derive, ret>>

\* Lines 36, 47, 52: make sgpCh and start the safe-prime goroutine.
SpawnSgp(i) ==
    /\ pc[i] = "spawnSgp"
    /\ pc' = [pc EXCEPT ![i] = "recvSgp"]
    /\ sgpPc' = [sgpPc EXCEPT ![i] = "call"]
    /\ UNCHANGED <<invs, args, concurrency, panicVal, paiPc, paiArg,
                   paiLocal, sgpArg, accepted, attempts, wres, sgpLocal,
                   order, sgps, paiSK, derive, ret>>

\* ------------------------------------------- the Paillier goroutine
\* paillier.GenerateKeyPair: a key pair of the requested modulus length, or
\* a nil key with an error.
GenerateKeyPair(len) ==
    {[sk |-> k, err |-> NoErr] : k \in PaillierKeys(len)}
        \cup {[sk |-> NilKey, err |-> ErrPaillier]}

\* Lines 40-43: PiPaillierSk, _ := paillier.GenerateKeyPair(...).  The
\* goroutine keeps the key; err is the second value, which line 41 discards.
PaiGenerate(i) ==
    /\ paiPc[i] = "gen"
    /\ \E r \in GenerateKeyPair(PaillierModulusLen) :
           paiLocal' = [paiLocal EXCEPT ![i] = r]
    /\ paiArg' = [paiArg EXCEPT ![i] = PaillierModulusLen]
    /\ paiPc' = [paiPc EXCEPT ![i] = "send"]
    /\ order' = [order EXCEPT ![i] = Append(@, "pai")]
    /\ UNCHANGED <<invs, args, pc, concurrency, panicVal, sgpPc, sgpArg,
                   accepted, attempts, wres, sgpLocal, sgps, paiSK, derive,
                   ret>>

\* ----------------------------------------- the safe-prime goroutine
\* Line 49: the arguments of GetRandomGermainPrimesConcurrent.
SearchArgs(c) == [bits |-> SafePrimeBitLen, count |-> 2, concurrency |-> c]

\* Lines 48-49: the call.  A concurrency below 1 fails fast; the call has one
\* result, so a failed search hands back a nil slice.
SearchCall(i) ==
    /\ sgpPc[i] = "call"
    /\ sgpArg' = [sgpArg EXCEPT ![i] = SearchArgs(concurrency[i])]
    /\ IF SearchArgs(concurrency[i]).concurrency < 1
       THEN /\ sgpPc' = [sgpPc EXCEPT ![i] = "send"]
            /\ sgpLocal' = [sgpLocal EXCEPT ![i] = << >>]
            /\ order' = [order EXCEPT ![i] = Append(@, "sgp")]
       ELSE /\ sgpPc' = [sgpPc EXCEPT ![i] = "search"]
            /\ UNCHANGED <<sgpLocal, order>>
    /\ UNCHANGED <<invs, args, pc, concurrency, panicVal, paiPc, paiArg,
                   paiLocal, accepted, attempts, wres, sgps, paiSK, derive,
                   ret>>

\* A worker samples one candidate and tests it; the pool issues no new
\* candidate once count primes are accepted.
WorkerSample(i, w) ==
    /\ sgpPc[i] = "search"
    /\ w <= sgpArg[i].concurrency
    /\ wres[i][w] = 0
    /\ Len(accepted[i]) < sgpArg[i].count
    /\ attempts[i] < MaxAttempts
    /\ attempts' = [attempts EXCEPT ![i] = @ + 1]
    /\ \E q \in Candidates(sgpArg[i].bits) :
           wres' = [wres EXCEPT ![i][w] = IF IsSafe(q) THEN q ELSE 0]
    /\ UNCHANGED <<invs, args, pc, concurrency, panicVal, paiPc, paiArg,
                   paiLocal, sgpPc, sgpArg, accepted, sgpLocal, order, sgps,
                   paiSK, derive, ret>>

\* Mutant: the pool merges a found prime without the distinctness check.
AcceptsAny(acc, q, count) == Len(acc) < count

\* Whether the pool merges a found prime: the batch is not full and the
\* prime differs from every prime accepted before.
Accepts(acc, q, count) ==
    Len(acc) < count /\ \A k \in 1 .. Len(acc) : acc[k] # q

\* Mutant: every collected worker result is merged, whenever it arrives.
CollectMergesAll(i, w) ==
    /\ sgpPc[i] \in {"search", "send", "exit"}
    /\ wres[i][w] # 0
    /\ wres' = [wres EXCEPT ![i][w] = 0]
    /\ accepted' = [accepted EXCEPT ![i] = Append(@, wres[i][w])]
    /\ UNCHANGED <<invs, args, pc, concurrency, panicVal, paiPc, paiArg,
                   paiLocal, sgpPc, sgpArg, attempts, sgpLocal, order, sgps,
                   paiSK, derive, ret>>

\* The pool collects a worker result: merged if accepted, else discarded; a
\* result that arrives after the search returned is discarded.
Collect(i, w) ==
    /\ sgpPc[i] \in {"search", "send", "exit"}
    /\ wres[i][w] # 0
    /\ wres' = [wres EXCEPT ![i][w] = 0]
    /\ accepted' =
           IF sgpPc[i] = "search"
              /\ Accepts(accepted[i], wres[i][w], sgpArg[i].count)
           THEN [accepted EXCEPT ![i] = Append(@, wres[i][w])]
           ELSE accepted
    /\ UNCHANGED <<invs, args, pc, concurrency, panicVal, paiPc, paiArg,
                   paiLocal, sgpPc, sgpArg, attempts, sgpLocal, order, sgps,
                   paiSK, derive, ret>>

\* The search returns once count primes are accepted.
SearchReturn(i) ==
    /\ sgpPc[i] = "search"
    /\ Len(accepted[i]) = sgpArg[i].count
    /\ sgpLocal' = [sgpLocal EXCEPT ![i] =
                       [k \in 1 .. Len(accepted[i]) |->
                           GermainPrime(accepted[i][k])]]
    /\ sgpPc' = [sgpPc EXCEPT ![i] = "send"]
    /\ order' = [order EXCEPT ![i] = Append(@, "sgp")]
    /\ UNCHANGED <<invs, args, pc, concurrency, panicVal, paiPc, paiArg,
                   paiLocal, sgpArg, accepted, attempts, wres, sgps, paiSK,
                   derive, ret>>

\* The search gives up when its attempts are exhausted: a nil slice.
SearchFail(i) ==
    /\ sgpPc[i] = "search"
    /\ Len(accepted[i]) < sgpArg[i].count
    /\ attempts[i] >= MaxAttempts
    /\ \A w \in Workers : wres[i][w] = 0
    /\ sgpLocal' = [sgpLocal EXCEPT ![i] = << >>]
    /\ sgpPc' = [sgpPc EXCEPT ![i] = "send"]
    /\ order' = [order EXCEPT ![i] = Append(@, "sgp")]
    /\ UNCHANGED <<invs, args, pc, concurrency, panicVal, paiPc, paiArg,
                   paiLocal, sgpArg, accepted, attempts, wres, sgps, paiSK,
                   derive, ret>>

\* ------------------------------------------------------- the join
\* Mutant: line 55 receives from sgpCh only and goes on to the derivation.
RecvSgpThenDerive(i) ==
    /\ pc[i] = "recvSgp"
    /\ sgpPc[i] = "send"
    /\ sgps' = [sgps EXCEPT ![i] = sgpLocal[i]]
    /\ sgpPc' = [sgpPc EXCEPT ![i] = "exit"]
    /\ pc' = [pc EXCEPT ![i] = "derive"]
    /\ UNCHANGED <<invs, args, concurrency, panicVal, paiPc, paiArg,
                   paiLocal, sgpArg, accepted, attempts, wres, sgpLocal,
                   order, paiSK, derive, ret>>

\* Lines 51, 55: sgpCh is unbuffered, so the send and the first receive of
\* line 55 happen together.
RecvSgp(i) ==
    /\ pc[i] = "recvSgp"
    /\ sgpPc[i] = "send"
    /\ sgps' = [sgps EXCEPT ![i] = sgpLocal[i]]
    /\ sgpPc' = [sgpPc EXCEPT ![i] = "exit"]
    /\ pc' = [pc EXCEPT ![i] = "recvPai"]
    /\ UNCHANGED <<invs, args, concurrency, panicVal, paiPc, paiArg,
                   paiLocal, sgpArg, accepted, attempts, wres, sgpLocal,
                   order, paiSK, derive, ret>>

\* Mutant: the receive from paiCh does not block; when the Paillier goroutine
\* is not yet sending, paiSK stays nil.
RecvPaiNoWait(i) ==
    /\ pc[i] = "recvPai"
    /\ IF paiPc[i] = "send"
       THEN /\ paiSK' = [paiSK EXCEPT ![i] = paiLocal[i].sk]
            /\ paiPc' = [paiPc EXCEPT ![i] = "exit"]
       ELSE UNCHANGED <<paiSK, paiPc>>
    /\ pc' = [pc EXCEPT ![i] = "derive"]
    /\ UNCHANGED <<invs, args, concurrency, panicVal, paiArg, paiLocal,
                   sgpPc, sgpArg, accepted, attempts, wres, sgpLocal, order,
                   sgps, derive, ret>>

\* Mutant: paiCh is shared by all invocations (a package-level channel), so
\* the receive takes the key of whichever invocation is sending.
RecvPaiShared(i) ==
    /\ pc[i] = "recvPai"
    /\ \E j \in invs :
         /\ paiPc[j] = "send"
         /\ paiSK' = [paiSK EXCEPT ![i] = paiLocal[j].sk]
         /\ paiPc' = [paiPc EXCEPT ![j] = "exit"]
    /\ pc' = [pc EXCEPT ![i] = "derive"]
    /\ UNCHANGED <<invs, args, concurrency, panicVal, paiArg, paiLocal,
                   sgpPc, sgpArg, accepted, attempts, wres, sgpLocal, order,
                   sgps, derive, ret>>

\* Lines 43, 55: the send on paiCh and the second receive of line 55.
RecvPai(i) ==
    /\ pc[i] = "recvPai"
    /\ paiPc[i] = "send"
    /\ paiSK' = [paiSK EXCEPT ![i] = paiLocal[i].sk]
    /\ paiPc' = [paiPc EXCEPT ![i] = "exit"]
    /\ pc' = [pc EXCEPT ![i] = "derive"]
    /\ UNCHANGED <<invs, args, concurrency, panicVal, paiArg, paiLocal,
                   sgpPc, sgpArg, accepted, attempts, wres, sgpLocal, order,
                   sgps, derive, ret>>

\* ------------------------------------------------- the derivation
\* Mutant: the Sophie Germain components are handed over, not the safe primes.
DeriveArgsPrime(s) == <<s[1].q, s[2].q>>

\* Line 57: the two values handed to crypto.GenerateNTildei.
DeriveArgs(s) == <<SafePrime(s[1]), SafePrime(s[2])>>

\* crypto.GenerateNTildei: NTilde is the product of its two arguments.
NTildeOf(safePrimes) == safePrimes[1] * safePrimes[2]

\* Line 57: indexing sgps[0] and sgps[1] panics on a slice shorter than 2;
\* otherwise GenerateNTildei starts with the product.
DeriveCall(i) ==
    /\ pc[i] = "derive"
    /\ IF Len(sgps[i]) < 2
       THEN /\ pc' = [pc EXCEPT ![i] = "panicked"]
            /\ panicVal' = [panicVal EXCEPT ![i] = PanicIndex]
            /\ UNCHANGED derive
       ELSE /\ pc' = [pc EXCEPT ![i] = "sampleH1"]
            /\ derive' = [derive EXCEPT
                   ![i].NTildei = NTildeOf(DeriveArgs(sgps[i]))]
            /\ UNCHANGED panicVal
    /\ UNCHANGED <<invs, args, concurrency, paiPc, paiArg, paiLocal, sgpPc,
                   sgpArg, accepted, attempts, wres, sgpLocal, order, sgps,
                   paiSK, ret>>

\* GenerateNTildei samples h1: a sample that is not invertible modulo NTilde
\* is rejected and resampled, and too many rejections are an error.
SampleH1(i) ==
    /\ pc[i] = "sampleH1"
    /\ \E h \in H1Samples(derive[i].NTildei) :
         IF Gcd(h, derive[i].NTildei) = 1
         THEN /\ derive' = [derive EXCEPT ![i].h1i = h]
              /\ pc' = [pc EXCEPT ![i] = "sampleAlpha"]
         ELSE IF derive[i].resamples < MaxResample
         THEN /\ derive' = [derive EXCEPT ![i].resamples = @ + 1]
              /\ UNCHANGED pc
         ELSE /\ derive' = [derive EXCEPT ![i].err = ErrNTilde]
              /\ pc' = [pc EXCEPT ![i] = "return"]
    /\ UNCHANGED <<invs, args, concurrency, panicVal, paiPc, paiArg,
                   paiLocal, sgpPc, sgpArg, accepted, attempts, wres,
                   sgpLocal, order, sgps, paiSK, ret>>

\* GenerateNTildei samples alpha and computes h2 = h1^alpha mod NTilde.
SampleAlpha(i) ==
    /\ pc[i] = "sampleAlpha"
    /\ \E a \in AlphaSamples(derive[i].NTildei) :
           derive' = [derive EXCEPT
               ![i].alpha = a,
               ![i].h2i = ModExp(derive[i].h1i, a, derive[i].NTildei)]
    /\ pc' = [pc EXCEPT ![i] = "return"]
    /\ UNCHANGED <<invs, args, concurrency, panicVal, paiPc, paiArg,
                   paiLocal, sgpPc, sgpArg, accepted, attempts, wres,
                   sgpLocal, order, sgps, paiSK, ret>>

\* Mutant: the two generators are stored in each other field.
ReturnValueSwapped(d, sk) ==
    IF d.err # NoErr
    THEN [returned |-> TRUE, preParams |-> NilPreParams, err |-> d.err]
    ELSE [returned |-> TRUE,
          preParams |-> [isNil |-> FALSE, PaillierSK |-> sk,
                         NTildei |-> d.NTildei, H1i |-> d.h2i, H2i |-> d.h1i],
          err |-> NoErr]

\* Mutant: the assembled record is returned together with the error.
ReturnValueIgnoreErr(d, sk) ==
    [returned |-> TRUE,
     preParams |-> [isNil |-> FALSE, PaillierSK |-> sk,
                    NTildei |-> d.NTildei, H1i |-> d.h1i, H2i |-> d.h2i],
     err |-> d.err]

\* Lines 57-68: what GeneratePreParams returns for the results of
\* GenerateNTildei and the received Paillier key.
ReturnValue(d, sk) ==
    IF d.err # NoErr
    THEN [returned |-> TRUE, preParams |-> NilPreParams, err |-> d.err]
    ELSE [returned |-> TRUE,
          preParams |-> [isNil |-> FALSE, PaillierSK |-> sk,
                         NTildei |-> d.NTildei, H1i |-> d.h1i, H2i |-> d.h2i],
          err |-> NoErr]

\* Lines 58-68.
Return(i) ==
    /\ pc[i] = "return"
    /\ ret' = [ret EXCEPT ![i] = ReturnValue(derive[i], paiSK[i])]
    /\ pc' = [pc EXCEPT ![i] = "done"]
    /\ UNCHANGED <<invs, args, concurrency, panicVal, paiPc, paiArg,
                   paiLocal, sgpPc, sgpArg, accepted, attempts, wres,
                   sgpLocal, order, sgps, paiSK, derive>>

Next ==
    \/ \E i \in invs : Resolve(i)
    \/ \E i \in invs : SpawnPai(i)
    \/ \E i \in invs : SpawnSgp(i)
    \/ \E i \in invs : PaiGenerate(i)
    \/ \E i \in invs : SearchCall(i)
    \/ \E i \in invs, w \in Workers : WorkerSample(i, w)
    \/ \E i \in invs, w \in Workers : Collect(i, w)
    \/ \E i \in invs : SearchReturn(i)
    \/ \E i \in invs : SearchFail(i)
    \/ \E i \in invs : RecvSgp(i)
    \/ \E i \in invs : RecvPai(i)
    \/ \E i \in invs : DeriveCall(i)
    \/ \E i \in invs : SampleH1(i)
    \/ \E i \in invs : SampleAlpha(i)
    \/ \E i \in invs : Return(i)

Spec == Init /\ [][Next]_vars

\* Two invocations of GeneratePreParams(1) running at the same time.  Their
\* steps interleave freely; of each invocation the runs are followed in which
\* the pool samples no more candidates than the count it was asked for and
\* the derivation rejects no h1 sample (so neither gives up).
InitMulti == InitWith(InvIds, {<<1>>})
NextMulti ==
    \/ \E i \in invs : Resolve(i)
    \/ \E i \in invs : SpawnPai(i)
    \/ \E i \in invs : SpawnSgp(i)
    \/ \E i \in invs : PaiGenerate(i)
    \/ \E i \in invs : SearchCall(i)
    \/ \E i \in invs, w \in Workers :
           WorkerSample(i, w) /\ attempts'[i] <= sgpArg[i].count
    \/ \E i \in invs, w \in Workers : Collect(i, w)
    \/ \E i \in invs : SearchReturn(i)
    \/ \E i \in invs : RecvSgp(i)
    \/ \E i \in invs : RecvPai(i)
    \/ \E i \in invs : DeriveCall(i)
    \/ \E i \in invs : SampleH1(i) /\ derive'[i].resamples = 0
    \/ \E i \in invs : SampleAlpha(i)
    \/ \E i \in invs : Return(i)
SpecMulti == InitMulti /\ [][NextMulti]_vars

\* ---------------------------------------------------------------- claims
\* The Paillier subtask failed: GenerateKeyPair returned an error.
PaiFailed(i) == paiPc[i] \in {"send", "exit"} /\ paiLocal[i].err # NoErr
\* The safe-prime search failed: it handed back a nil slice.
SgpFailed(i) == sgpPc[i] \in {"send", "exit"} /\ Len(sgpLocal[i]) = 0
\* The invocation has ended, by a return or by a panic.
Ended(i) == pc[i] \in {"done", "panicked"}
\* A concurrency value was given and it is not positive.
NonPositive(i) == Len(args[i]) = 1 /\ args[i][1] < 1
\* The derivation step of line 57 has been reached or passed.
Deriving(i) ==
    \/ pc[i] \in {"sampleH1", "sampleAlpha", "return", "done"}
    \/ panicVal[i] = PanicIndex

\* C1: whenever a top-level subtask has failed and GeneratePreParams has
\* returned, it returned a non-nil error and no result.
C1_SubtaskErrorReturned ==
    \A i \in invs :
        (ret[i].returned /\ (PaiFailed(i) \/ SgpFailed(i)))
            => (ret[i].err # NoErr /\ ret[i].preParams.isNil)

\* C2: whatever GeneratePreParams returns is either a complete result with a
\* nil error (PaillierSK, NTildei, H1i and H2i all present) or a nil result
\* with a non-nil error.
C2_NoPartialResult ==
    \A i \in invs :
        ret[i].returned =>
            \/ /\ ret[i].err = NoErr
               /\ ~ret[i].preParams.isNil
               /\ ret[i].preParams.PaillierSK # NilKey
               /\ ret[i].preParams.NTildei # 0
               /\ ret[i].preParams.H1i # 0
               /\ ret[i].preParams.H2i # 0
            \/ /\ ret[i].err # NoErr
               /\ ret[i].preParams.isNil

\* C3: when the Paillier subtask failed before the safe-prime search had
\* finished, the orchestrator never ends up holding a search result that ran
\* to its natural end, and what it returns is the Paillier error.
C3_FailFastCancellation ==
    \A i \in invs :
        (PaiFailed(i) /\ order[i][1] = "pai")
            => /\ Len(sgps[i]) < 2
               /\ (ret[i].returned => ret[i].err = ErrPaillier)

\* C4: with a given concurrency value that is not positive, neither the
\* Paillier task nor the safe-prime search is ever started, and an ended
\* invocation has returned an error.
C4_InvalidConcurrencyNoWork ==
    \A i \in invs :
        NonPositive(i)
            => /\ paiPc[i] = "none"
               /\ sgpPc[i] = "none"
               /\ (Ended(i) => (ret[i].returned /\ ret[i].err # NoErr))

\* C5: an invocation with an invalid configuration (more than one
\* concurrency argument, or a value that is not positive) never panics.
C5_InvalidConfigNeverPanics ==
    \A i \in invs :
        (Len(args[i]) > 1 \/ NonPositive(i)) => pc[i] # "panicked"

\* C6: once the derivation step is reached, both goroutines have handed over
\* their results: the orchestrator holds what each subtask produced and each
\* subtask had completed before.
C6_JoinBeforeDerive ==
    \A i \in invs :
        Deriving(i)
            => /\ sgpPc[i] = "exit" /\ paiPc[i] = "exit"
               /\ Len(order[i]) = 2
               /\ sgps[i] = sgpLocal[i]
               /\ paiSK[i] = paiLocal[i].sk
C6_Witness ==
    \E i \in invs : pc[i] = "sampleH1" /\ paiPc[i] = "exit" /\ sgpPc[i] = "exit"

\* The result GeneratePreParams owes to the values its subtasks produced and
\* the values the derivation sampled; the completion order plays no part.
ResultOf(sk, found, h1, alpha, err) ==
    IF err # NoErr
    THEN [returned |-> TRUE, preParams |-> NilPreParams, err |-> err]
    ELSE LET N == found[1].p * found[2].p
         IN [returned |-> TRUE,
             preParams |-> [isNil |-> FALSE, PaillierSK |-> sk, NTildei |-> N,
                            H1i |-> h1, H2i |-> ModExp(h1, alpha, N)],
             err |-> NoErr]

\* C7: in either completion order of the two tasks, what GeneratePreParams
\* returns is the same function of the values the tasks produced.
C7_OrderIndependent ==
    \A i \in invs :
        ret[i].returned
            => /\ order[i] \in {<<"pai", "sgp">>, <<"sgp", "pai">>}
               /\ ret[i] = ResultOf(paiLocal[i].sk, sgpLocal[i],
                                    derive[i].h1i, derive[i].alpha,
                                    derive[i].err)
\* The Paillier task finished first, waited on its send, and the call
\* returned a result.
C7_Witness ==
    \E i \in invs :
        /\ ret[i].returned /\ ret[i].err = NoErr
        /\ order[i] = <<"pai", "sgp">>
        /\ ret[i].preParams.PaillierSK # NilKey

\* C8: on a successful return NTildei is the product of the two safe primes
\* 2q+1 the search of the same invocation returned, and not the product of
\* the components q.
C8_NTildeIsSafePrimeProduct ==
    \A i \in invs :
        (ret[i].returned /\ ret[i].err = NoErr)
            => /\ Len(sgpLocal[i]) = 2
               /\ ret[i].preParams.NTildei =
                      (2 * sgpLocal[i][1].q + 1) * (2 * sgpLocal[i][2].q + 1)
               /\ ret[i].preParams.NTildei # sgpLocal[i][1].q * sgpLocal[i][2].q
C8_Witness ==
    \E i \in invs :
        /\ ret[i].returned /\ ret[i].err = NoErr
        /\ ret[i].preParams.NTildei = 47 * 59

\* C9: the primes the pool accepted are pairwise distinct, and the two safe
\* primes NTildei is built from are distinct primes.
C9_SafePrimesDistinct ==
    \A i \in invs :
        /\ \A j, k \in 1 .. Len(accepted[i]) :
               j # k => accepted[i][j] # accepted[i][k]
        /\ derive[i].NTildei # 0
               => /\ SafePrime(sgps[i][1]) # SafePrime(sgps[i][2])
                  /\ IsPrime(SafePrime(sgps[i][1]))
                  /\ IsPrime(SafePrime(sgps[i][2]))
\* A worker found a prime the pool had already accepted, and the pair the
\* derivation ran on holds it once.
C9_Witness ==
    \E i \in invs :
        /\ derive[i].NTildei # 0
        /\ Len(sgps[i]) = 2
        /\ \E w \in Workers : wres[i][w] = sgps[i][1].q

\* C10: the search is called for 2 primes of SafePrimeBitLen bits with NumCPU
\* workers when no argument is given and with c workers for one positive
\* argument c; no other worker ever samples; the Paillier generator is called
\* with PaillierModulusLen.
C10_ConcurrencyResolution ==
    \A i \in invs :
        (Len(args[i]) = 0 \/ (Len(args[i]) = 1 /\ args[i][1] >= 1))
            => /\ sgpPc[i] \in {"search", "send", "exit"}
                   => /\ sgpArg[i].bits = SafePrimeBitLen
                      /\ sgpArg[i].count = 2
                      /\ sgpArg[i].concurrency =
                             (IF Len(args[i]) = 0 THEN NumCPU ELSE args[i][1])
               /\ \A w \in Workers :
                      wres[i][w] # 0
                          => w <= (IF Len(args[i]) = 0 THEN NumCPU
                                   ELSE args[i][1])
               /\ paiPc[i] \in {"send", "exit"}
                      => paiArg[i] = PaillierModulusLen
C10_Witness ==
    \E i \in invs :
        /\ args[i] = <<1>>
        /\ sgpPc[i] = "search"
        /\ sgpArg[i].concurrency = 1
        /\ wres[i][1] # 0
        /\ paiPc[i] = "send"

\* Everything invocation i holds: its arguments, the locals of its
\* orchestrator and goroutines, its two channels and what it returned.
LocalState(i) ==
    <<args[i], pc[i], concurrency[i], panicVal[i], paiPc[i], paiArg[i],
      paiLocal[i], sgpPc[i], sgpArg[i], accepted[i], attempts[i], wres[i],
      sgpLocal[i], order[i], sgps[i], paiSK[i], derive[i], ret[i]>>

\* What an invocation received and returned is its own: the key and the
\* primes its own goroutines produced, and nothing of it is still running.
OwnValuesOnly(i) ==
    /\ Deriving(i) => (sgps[i] = sgpLocal[i] /\ paiSK[i] = paiLocal[i].sk)
    /\ ret[i].returned
           => /\ ret[i] = ResultOf(paiLocal[i].sk, sgpLocal[i], derive[i].h1i,
                                   derive[i].alpha, derive[i].err)
              /\ paiPc[i] = "exit" /\ sgpPc[i] = "exit"

\* C11: with invocations running concurrently, each builds its result only
\* from the Paillier key and the safe primes of its own two subtasks, and
\* every step touches the state of one invocation only, so nothing is shared
\* between invocations or left behind by one for another.
C11_InvocationsIsolated ==
    /\ [](\A i \in invs : OwnValuesOnly(i))
    /\ [][\E i \in invs :
            \A j \in InvIds \ {i} : LocalState(j)' = LocalState(j)]_vars
\* Both invocations returned results, built from different keys and from the
\* primes in different orders.
C11_Witness ==
    /\ \A i \in invs : ret[i].returned /\ ret[i].err = NoErr
    /\ ret[1].preParams.PaillierSK # ret[2].preParams.PaillierSK
    /\ sgps[1] # sgps[2]
    /\ ret[1].preParams.PaillierSK = paiLocal[1].sk

\* b^e mod m by successive multiplications: e of them for a small e, and
\* for a larger one b^e = (b^64)^(e div 64) * b^(e mod 64).
RECURSIVE PowMod(_, _, _)
PowMod(b, e, m) ==
    IF e = 0 THEN 1 % m
    ELSE IF e <= 64 THEN (b * PowMod(b, e - 1, m)) % m
    ELSE (PowMod(PowMod(b, 64, m), e \div 64, m) * PowMod(b, e % 64, m)) % m

\* C12: on a successful return H1i is invertible modulo NTildei, alpha lies
\* in [1, NTildei), and H2i is an element modulo NTildei with
\* H2i = H1i^alpha mod NTildei.
C12_GeneratorsRelated ==
    \A i \in invs :
        (ret[i].returned /\ ret[i].err = NoErr)
            => LET N == ret[i].preParams.NTildei
                   h1 == ret[i].preParams.H1i
                   h2 == ret[i].preParams.H2i
               IN /\ 0 < h1 /\ h1 < N /\ Gcd(h1, N) = 1
                  /\ 1 <= derive[i].alpha /\ derive[i].alpha < N
                  /\ 0 <= h2 /\ h2 < N
                  /\ h2 = PowMod(h1, derive[i].alpha, N)
\* A sample that is not invertible was rejected before the returned H1i was
\* drawn, and H2i is a proper power of it.
C12_Witness ==
    \E i \in invs :
        /\ ret[i].returned /\ ret[i].err = NoErr
        /\ derive[i].resamples >= 1
        /\ derive[i].alpha = 2
        /\ ret[i].preParams.H2i = 9

\* C13: a failed derivation comes only after both subtask results were
\* received, and what is returned then is a nil result with the derivation
\* error: the received Paillier key is not handed to the caller.
C13_DerivationErrorReturned ==
    \A i \in invs :
        derive[i].err # NoErr
            => /\ sgpPc[i] = "exit" /\ paiPc[i] = "exit"
               /\ sgps[i] = sgpLocal[i] /\ paiSK[i] = paiLocal[i].sk
               /\ pc[i] \in {"return", "done"}
               /\ pc[i] = "done"
                      => /\ ret[i].returned
                         /\ ret[i].err = derive[i].err
                         /\ ret[i].preParams = NilPreParams
C13_Witness ==
    \E i \in invs :
        /\ pc[i] = "done"
        /\ ret[i].err = ErrNTilde
        /\ paiSK[i] # NilKey
        /\ ret[i].preParams.PaillierSK = NilKey

\* The variables of the safe-prime search of invocation i.
SearchState(i) ==
    <<sgpArg[i], accepted[i], attempts[i], wres[i], sgpLocal[i]>>
\* The variables of the Paillier generation of invocation i.
PaillierState(i) == <<paiArg[i], paiLocal[i]>>

\* C14: both goroutines are started before the orchestrator blocks on a
\* receive; the computation of each is enabled whatever the other is doing;
\* a step that changes the state of one task leaves the state of the other
\* alone; and a goroutine completes its send only by handing its value to the
\* orchestrator.
C14_TasksIndependent ==
    /\ [](\A i \in invs :
            /\ pc[i] \in {"recvSgp", "recvPai"}
                   => (paiPc[i] # "none" /\ sgpPc[i] # "none")
            /\ paiPc[i] = "gen" => ENABLED PaiGenerate(i)
            /\ sgpPc[i] = "call" => ENABLED SearchCall(i))
    /\ [][\A i \in invs :
            /\ PaillierState(i)' # PaillierState(i)
                   => /\ SearchState(i)' = SearchState(i)
                      /\ sgpPc'[i] = sgpPc[i]
            /\ SearchState(i)' # SearchState(i)
                   => /\ PaillierState(i)' = PaillierState(i)
                      /\ paiPc'[i] = paiPc[i]
            /\ (paiPc[i] = "send" /\ paiPc'[i] = "exit")
                   => (pc[i] = "recvPai" /\ paiSK'[i] = paiLocal[i].sk)
            /\ (sgpPc[i] = "send" /\ sgpPc'[i] = "exit")
                   => (pc[i] = "recvSgp" /\ sgps'[i] = sgpLocal[i])]_vars
\* The orchestrator is blocked on sgpCh while the Paillier generation and the
\* search are both under way.
C14_Witness ==
    \E i \in invs :
        /\ pc[i] = "recvSgp"
        /\ paiPc[i] = "gen"
        /\ sgpPc[i] = "search"
        /\ attempts[i] > 0

\* The search of invocation i has returned the batch it collected.
SearchReturned(i) == sgpPc[i] \in {"send", "exit"} /\ Len(sgpLocal[i]) # 0

\* C15: the pool never holds more accepted primes than the count asked for;
\* once it holds that many it samples no new candidate and merges nothing
\* more, a result collected later being dropped; and the sequence a search
\* returns is exactly the 2 accepted primes, for any number of workers.
C15_PoolStopsAtCount ==
    /\ [](\A i \in invs :
            /\ sgpPc[i] \in {"search", "send", "exit"}
                   => Len(accepted[i]) <= sgpArg[i].count
            /\ SearchReturned(i)
                   => /\ Len(sgpLocal[i]) = 2
                      /\ \A k \in 1 .. 2 :
                             sgpLocal[i][k] = GermainPrime(accepted[i][k]))
    /\ [][\A i \in invs :
            (sgpPc[i] \in {"search", "send", "exit"}
             /\ Len(accepted[i]) = sgpArg[i].count)
                => /\ accepted'[i] = accepted[i]
                   /\ attempts'[i] = attempts[i]
                   /\ \A w \in Workers : wres'[i][w] \in {wres[i][w], 0}
                   /\ sgpPc[i] # "search" => sgpLocal'[i] = sgpLocal[i]]_vars
\* With two workers, the search has returned its two primes while a result
\* of a worker is still on its way.
C15_Witness ==
    \E i \in invs :
        /\ SearchReturned(i)
        /\ sgpArg[i].concurrency = 2
        /\ \E w \in Workers : wres[i][w] # 0

\* Both top-level subtasks of invocation i have returned to their goroutine.
BothReturned(i) ==
    paiPc[i] \in {"send", "exit"} /\ sgpPc[i] \in {"send", "exit"}
\* The orchestrator of invocation i can take a step of the join or of what
\* follows it.
CanProceed(i) ==
    ENABLED (\/ RecvSgp(i) \/ RecvPai(i) \/ DeriveCall(i)
             \/ SampleH1(i) \/ SampleAlpha(i) \/ Return(i))

\* C16: once both subtasks have returned, GeneratePreParams has returned or
\* can still take a step towards its return, in every interleaving (it is
\* never stuck and never ended without returning); and it has not returned
\* while the safe-prime search has not.
C16_JoinTerminates ==
    \A i \in invs :
        /\ BothReturned(i)
               => \/ ret[i].returned
                  \/ (pc[i] # "panicked" /\ CanProceed(i))
        /\ ret[i].returned => sgpPc[i] = "exit"

\* C17: when GeneratePreParams has returned, with a result or with the
\* derivation error, each goroutine has sent its one message, the
\* orchestrator holds both, and both goroutines have ended; an ended
\* goroutine sends nothing more.
C17_NoGoroutineLeft ==
    /\ [](\A i \in invs :
            ret[i].returned
                => /\ paiPc[i] = "exit" /\ sgpPc[i] = "exit"
                   /\ sgps[i] = sgpLocal[i]
                   /\ paiSK[i] = paiLocal[i].sk
                   /\ Len(order[i]) = 2)
    /\ [][\A i \in invs :
            /\ paiPc[i] = "exit"
                   => (paiPc'[i] = "exit" /\ paiSK'[i] = paiSK[i])
            /\ sgpPc[i] = "exit"
                   => (sgpPc'[i] = "exit" /\ sgps'[i] = sgps[i])]_vars
\* The call returned the derivation error after the Paillier goroutine had
\* waited on its send for the search to finish.
C17_Witness ==
    \E i \in invs :
        /\ ret[i].returned /\ ret[i].err # NoErr
        /\ order[i] = <<"pai", "sgp">>
        /\ paiPc[i] = "exit" /\ sgpPc[i] = "exit"

\* C18: whenever the derivation step is about to index sgps[0] and sgps[1],
\* the received slice has at least 2 entries, and the call never panics on
\* that indexing.
C18_SafePrimesPresent ==
    \A i \in invs :
        /\ pc[i] = "derive" => Len(sgps[i]) >= 2
        /\ panicVal[i] # PanicIndex
====
